---- MODULE Spec2Model ----
(***************************************************************************)
(* Model of the hangman solver of src/src/main.rs: the HangmanPlayer       *)
(* engine (new, compute_letter_scores, push_history, mark_result,          *)
(* prune_words, fill_certain_letters) and the interactive driver           *)
(* PlayerUI::play with its input validation PlayerUI::read_guess.          *)
(*                                                                         *)
(* Letters are the numbers 1..NumLetters ('a' is 1, 'b' is 2, ...), a word *)
(* is a sequence of letters, a Vec is a sequence.  Option<char> is a       *)
(* letter or None.  Rust indexes cells from 0, sequences here from 1: the  *)
(* cell with Rust index p is element p + 1.                                *)
(***************************************************************************)
EXTENDS Integers, Sequences, FiniteSets, TLC

\* ------------------------------------------------------------- bounds
\* size of the alphabet ('a'..='z' in the source)
NumLetters == 3
\* longest word of a dictionary, and largest word length asked for
MaxLen == 3
\* most letters in a dictionary, all its words together
MaxChars == 6

\* ------------------------------------------------------------- data
Letters == 1..NumLetters

None == 0

Contains(s, x) == \E i \in 1..Len(s) : s[i] = x

SeqSet(s) == {s[i] : i \in 1..Len(s)}

RECURSIVE WordsOfLen(_)
WordsOfLen(n) ==
    IF n = 0 THEN {<<>>}
    ELSE {Append(w, l) : w \in WordsOfLen(n - 1), l \in Letters}

Words == UNION {WordsOfLen(n) : n \in 1..MaxLen}

\* position of a word in the listing order of a dictionary file
RECURSIVE WordRank(_)
WordRank(w) ==
    IF w = <<>> THEN 0
    ELSE WordRank(SubSeq(w, 1, Len(w) - 1)) * (NumLetters + 1) + w[Len(w)]

RECURSIVE Chars(_)
Chars(ws) == IF ws = <<>> THEN 0 ELSE Len(ws[1]) + Chars(Tail(ws))

\* The engine compares letters for equality only, so two dictionaries that
\* differ by a renaming of the letters behave alike: a dictionary names its
\* letters in the order in which they first occur in the file.  InOrder(w, m)
\* holds when word w goes on like that after letters 1..m have occurred.
RECURSIVE InOrder(_, _)
InOrder(w, m) ==
    \/ w = <<>>
    \/ /\ w[1] <= m + 1
       /\ InOrder(Tail(w), IF w[1] > m THEN w[1] ELSE m)

RECURSIVE MaxLetter(_)
MaxLetter(ws) ==
    IF ws = <<>> THEN 0
    ELSE LET m == MaxLetter(Tail(ws))
             h == CHOOSE x \in SeqSet(ws[1]) : \A y \in SeqSet(ws[1]) : y <= x
         IN  IF h > m THEN h ELSE m

\* the word lists a dictionary file can hold: k distinct words or fewer, in
\* listing order, of at most MaxChars letters together
RECURSIVE WordLists(_)
WordLists(k) ==
    IF k = 0 THEN {<<>>}
    ELSE LET shorter == WordLists(k - 1)
         IN  shorter \cup
             UNION {{Append(d, w) :
                       w \in {x \in Words :
                                /\ Chars(d) + Len(x) <= MaxChars
                                /\ InOrder(x, MaxLetter(d))
                                /\ \/ d = <<>>
                                   \/ WordRank(d[Len(d)]) < WordRank(x)}} :
                    d \in {e \in shorter : Len(e) = k - 1}}

Dictionaries == WordLists(MaxChars)

\* the same, a line of the file repeated allowed
RECURSIVE WordListsRepeating(_)
WordListsRepeating(k) ==
    IF k = 0 THEN {<<>>}
    ELSE LET shorter == WordListsRepeating(k - 1)
         IN  shorter \cup
             UNION {{Append(d, w) :
                       w \in {x \in Words :
                                /\ Chars(d) + Len(x) <= MaxChars
                                /\ InOrder(x, MaxLetter(d))
                                /\ \/ d = <<>>
                                   \/ WordRank(d[Len(d)]) <= WordRank(x)}} :
                    d \in {e \in shorter : Len(e) = k - 1}}

FilesOfWords == WordListsRepeating(MaxChars)

\* the words simulate can be asked to find in a dictionary, the letters the
\* dictionary does not have named in order after those it has
SimulateArgs(ws) ==
    {x \in Words : Chars(ws) + Len(x) <= MaxChars /\ InOrder(x, MaxLetter(ws))}

\* ------------------------------------------------- HangmanPlayer::new
HangmanPlayer_new(ws, word_length) ==
    [ok              |-> TRUE,
     available_words |-> SelectSeq(ws, LAMBDA w : Len(w) = word_length),
     current_guess   |-> [i \in 1..word_length |-> None],
     not_present     |-> <<>>,
     used_letters    |-> <<>>,
     guess_history   |-> <<>>]

\* fn nonzero, the value parser of PlayArgs::letters
nonzero(val) == val # 0

\* --------------------------------- HangmanPlayer::compute_letter_scores
\* unique_letters.sort()
RECURSIVE insert_char(_, _)
insert_char(sorted, c) ==
    IF sorted = <<>> THEN <<c>>
    ELSE IF sorted[Len(sorted)] <= c THEN Append(sorted, c)
    ELSE Append(insert_char(SubSeq(sorted, 1, Len(sorted) - 1), c), sorted[Len(sorted)])

RECURSIVE sort_chars(_)
sort_chars(word) ==
    IF word = <<>> THEN <<>>
    ELSE insert_char(sort_chars(SubSeq(word, 1, Len(word) - 1)), word[Len(word)])

\* unique_letters.dedup(): a letter equal to the one before it is dropped
RECURSIVE dedup(_)
dedup(s) ==
    IF Len(s) <= 1 THEN s
    ELSE LET front == dedup(SubSeq(s, 1, Len(s) - 1))
         IN  IF s[Len(s)] = s[Len(s) - 1] THEN front ELSE Append(front, s[Len(s)])

unique_letters_not_deduped(word) == sort_chars(word)

\* unique_letters: the word's letters, sorted and deduplicated
unique_letters(word) == dedup(sort_chars(word))

\* the inner loop: the count of every letter of unique_letters that has an
\* entry goes up by one
RECURSIVE count_letters(_, _, _)
count_letters(counts, unique, j) ==
    IF j > Len(unique) THEN counts
    ELSE count_letters(IF unique[j] \in DOMAIN counts
                       THEN [counts EXCEPT ![unique[j]] = @ + 1]
                       ELSE counts,
                       unique, j + 1)

\* the loop over available_words
RECURSIVE count_words(_, _, _)
count_words(ws, i, counts) ==
    IF i > Len(ws) THEN counts
    ELSE count_words(ws, i + 1, count_letters(counts, unique_letters(ws[i]), 1))

\* counts: one entry, 0, for every letter that is not used, then the loops
letter_counts(ws, used) ==
    count_words(ws, 1, [l \in {x \in Letters : ~Contains(used, x)} |-> 0])

\* counts.into_iter(): a HashMap yields its entries in an order that depends
\* on the map's random hasher seed, so every order of the entries can come out
RECURSIVE Orders(_)
Orders(S) ==
    IF S = {} THEN {<<>>}
    ELSE UNION {{<<x>> \o t : t \in Orders(S \ {x})} : x \in S}

hash_map_orders(counts) ==
    {[i \in 1..Len(o) |-> <<o[i], counts[o[i]]>>] : o \in Orders(DOMAIN counts)}

\* sort_by(|(_, a), (_, b)| b.cmp(a)): a stable sort, larger score first
RECURSIVE insert_sorted(_, _)
insert_sorted(sorted, e) ==
    IF sorted = <<>> THEN <<e>>
    ELSE IF sorted[Len(sorted)][2] >= e[2] THEN Append(sorted, e)
    ELSE Append(insert_sorted(SubSeq(sorted, 1, Len(sorted) - 1), e),
                sorted[Len(sorted)])

RECURSIVE sort_by_score(_, _, _)
sort_by_score(entries, i, sorted) ==
    IF i > Len(entries) THEN sorted
    ELSE sort_by_score(entries, i + 1, insert_sorted(sorted, entries[i]))

\* the results a call of compute_letter_scores can return
compute_letter_scores(ws, used) ==
    {sort_by_score(e, 1, <<>>) : e \in hash_map_orders(letter_counts(ws, used))}

\* ------------------------------------------- HangmanPlayer::push_history
push_history(history, guess, np) ==
    Append(history, [guess |-> guess, not_present |-> np])

\* --------------------------------------------- HangmanPlayer::mark_result
\* positions holds Rust indices (from 0)
mark_used(used, letter) == Append(used, letter)

mark_not_present(np, letter, positions) ==
    IF positions = {} THEN Append(np, letter) ELSE np

mark_guess(guess, letter, positions) ==
    [i \in 1..Len(guess) |-> IF (i - 1) \in positions THEN letter ELSE guess[i]]

\* --------------------------------------------- HangmanPlayer::prune_words
\* the body of the retain closure up to its first loop: the cells of the word
\* are scanned in order; the word is dropped at the first cell that holds a
\* letter of not_present or differs from a placed letter; an open cell whose
\* potential-letter list is not yet full adds the word's letter to
\* potential_additions
RECURSIVE scan_word(_, _, _, _, _, _)
scan_word(word, guess, np, potential_letters, i, additions) ==
    IF i > Len(guess) \/ i > Len(word) THEN [keep |-> TRUE, additions |-> additions]
    ELSE IF Contains(np, word[i]) THEN [keep |-> FALSE, additions |-> additions]
    ELSE IF guess[i] # None
         THEN IF guess[i] # word[i]
              THEN [keep |-> FALSE, additions |-> additions]
              ELSE scan_word(word, guess, np, potential_letters, i + 1, additions)
    ELSE IF Len(potential_letters[i]) < NumLetters
         THEN scan_word(word, guess, np, potential_letters, i + 1,
                        [additions EXCEPT ![i] = Append(@, word[i])])
    ELSE scan_word(word, guess, np, potential_letters, i + 1, additions)

\* the closure's second loop: the additions of a retained word are pushed to
\* the potential letters of their cell unless already there
RECURSIVE push_new(_, _, _)
push_new(place_letters, place_additions, j) ==
    IF j > Len(place_additions) THEN place_letters
    ELSE push_new(IF Contains(place_letters, place_additions[j])
                  THEN place_letters
                  ELSE Append(place_letters, place_additions[j]),
                  place_additions, j + 1)

merge_additions(potential_letters, additions) ==
    [i \in 1..Len(potential_letters) |->
        push_new(potential_letters[i], additions[i], 1)]

\* the closure returns false from inside its first loop: potential_additions
\* is dropped, potential_letters stays as it was
drop_additions_merged(potential_letters, additions) ==
    merge_additions(potential_letters, additions)

drop_additions(potential_letters, additions) == potential_letters

\* retain over available_words, in order
RECURSIVE retain_words(_, _, _, _, _, _)
retain_words(ws, guess, np, k, kept, potential_letters) ==
    IF k > Len(ws)
    THEN [available_words |-> kept, potential_letters |-> potential_letters]
    ELSE LET r == scan_word(ws[k], guess, np, potential_letters, 1,
                            [i \in 1..Len(guess) |-> <<>>])
         IN  IF r.keep
             THEN retain_words(ws, guess, np, k + 1, Append(kept, ws[k]),
                               merge_additions(potential_letters, r.additions))
             ELSE retain_words(ws, guess, np, k + 1, kept,
                               drop_additions(potential_letters, r.additions))

prune_words_placed_only(ws, guess, np) ==
    retain_words(ws, guess, <<>>, 1, <<>>, [i \in 1..Len(guess) |-> <<>>])

prune_words(ws, guess, np) ==
    retain_words(ws, guess, np, 1, <<>>, [i \in 1..Len(guess) |-> <<>>])

\* -------------------------------------- HangmanPlayer::fill_certain_letters
fill_certain_letters_first_seen(guess, potential_letters) ==
    [i \in 1..Len(guess) |->
        IF guess[i] = None /\ Len(potential_letters[i]) >= 1
        THEN potential_letters[i][1]
        ELSE guess[i]]

fill_certain_letters(guess, potential_letters) ==
    [i \in 1..Len(guess) |->
        IF guess[i] = None /\ Len(potential_letters[i]) = 1
        THEN potential_letters[i][1]
        ELSE guess[i]]

\* ------------------------- HangmanPlayer::prune_and_fill_certain_letters
prune_and_fill_certain_letters(ws, guess, np) ==
    LET r == prune_words(ws, guess, np)
    IN  [available_words |-> r.available_words,
         current_guess   |-> fill_certain_letters(guess, r.potential_letters)]

\* ------------------------------------------------- PlayerUI::read_guess
\* A line typed at the prompt, after trim and to_lowercase: the empty line,
\* the word undo, a line the pattern ^([a-z])(( [0-9]+)*)$ does not match, or
\* a letter followed by position numbers (as typed: counted from 1).
Line(kind, letter, numbers) == [kind |-> kind, letter |-> letter, numbers |-> numbers]

\* usize::MAX, scaled down: every index of a word and the number after the
\* last one are below it, and one number that can be typed is above it
usize_MAX == MaxLen + 1

\* str::parse::<usize> of a run of digits fails when the number is too large
parse_fails(t) == t > usize_MAX

Lines(letters) ==
    {Line("empty", None, {}), Line("undo", None, {}), Line("malformed", None, {})}
    \cup {Line("guess", l, ns) : l \in Letters, ns \in SUBSET (0..(letters + 1))}
    \cup {Line("guess", l, ns \cup {usize_MAX + 1}) : l \in Letters, ns \in {{}, {1}}}

Printed(text, letter) == [text |-> text, letter |-> letter]

Outcome(flow, letter, positions, printed) ==
    [flow |-> flow, letter |-> letter, positions |-> positions, printed |-> printed]

\* one pass of the loop of read_guess on one line: "continue" asks for another
\* line, "undo" returns Continue(Undo), "break" returns Break((letter, positions)),
\* "panic" is the unwrap of a failed parse
read_undo_falls_through(history) ==
    IF history = <<>>
    THEN Outcome("continue", None, {}, Printed("Invalid guess format", None))
    ELSE Outcome("undo", None, {}, Printed("", None))

\* the line is undo
read_undo(history) ==
    IF history = <<>>
    THEN Outcome("continue", None, {}, Printed("Nothing to undo!", None))
    ELSE Outcome("undo", None, {}, Printed("", None))

read_guess(line, used, history, guess, letters) ==
    IF line.kind = "empty"
    THEN Outcome("continue", None, {}, Printed("HELPTEXT", None))
    ELSE IF line.kind = "undo"
    THEN read_undo(history)
    ELSE IF line.kind = "malformed"
    THEN Outcome("continue", None, {}, Printed("Invalid guess format", None))
    ELSE IF Contains(used, line.letter)
    THEN Outcome("continue", None, {}, Printed("has already been guessed", line.letter))
    ELSE IF line.numbers = {}
    THEN Outcome("break", line.letter, {}, Printed("", None))
    ELSE IF \E t \in line.numbers : parse_fails(t)
    THEN Outcome("panic", None, {}, Printed("thread 'main' panicked", None))
    ELSE IF \E p \in line.numbers : p = 0 \/ p > letters
    THEN Outcome("continue", None, {},
                 Printed("Positions provided are invalid letter indicies", None))
    ELSE LET positions == {p - 1 : p \in line.numbers}
         IN  IF \E pos \in positions : guess[pos + 1] # None
             THEN Outcome("continue", None, {}, Printed("is already occupied", None))
             ELSE Outcome("break", line.letter, positions, Printed("", None))

\* ------------------------------------------------------------- state
VARIABLES
    words,               \* main: the word list load_words returned
    letters,             \* PlayArgs::letters as given on the command line
    pc,                  \* where main / PlayerUI::play stands
    available_words,     \* HangmanPlayer
    current_guess,
    not_present,
    used_letters,
    guess_history,
    original_word_list,  \* PlayerUI
    potential_letters,   \* the result of prune_words, handed to fill_certain_letters
    letter_scores,       \* play: the result of compute_letter_scores
    printed,             \* what the driver printed last about the line it read
    trace,               \* history variable: per frame of guess_history, the guess
                         \* that pushed it and the engine as it was before it
    last_undone,         \* history variable: the trace entry the last undo popped
    prev_scores,         \* the result of the call of compute_letter_scores before
    result,              \* main: what play returned
    word,                \* simulate: the word to find
    mistakes,            \* simulate
    guesses,             \* simulate
    index,               \* main, bulk simulation: the place in words of the word at hand
    rows,                \* main: the numbers reported, a row for every simulation done
    command              \* main: args.command

vars == <<words, letters, pc, available_words, current_guess, not_present,
          used_letters, guess_history, original_word_list, potential_letters,
          letter_scores, printed, trace, last_undone, prev_scores, result, word,
          mistakes, guesses, index, rows, command>>

\* the variables of the simulations
batch == <<word, mistakes, guesses, index, rows, command>>

NoResult == [kind |-> "none", word |-> <<>>]

engine == <<available_words, current_guess, not_present, used_letters, guess_history>>

NothingPrinted == Printed("", None)

\* main before HangmanPlayer::new: any dictionary, any word length
Init ==
    /\ words \in Dictionaries
    /\ letters \in 0..MaxLen
    /\ pc = "start"
    /\ available_words = <<>>
    /\ current_guess = <<>>
    /\ not_present = <<>>
    /\ used_letters = <<>>
    /\ guess_history = <<>>
    /\ original_word_list = <<>>
    /\ potential_letters = <<>>
    /\ letter_scores = <<>>
    /\ printed = NothingPrinted
    /\ trace = <<>>
    /\ last_undone = <<>>
    /\ prev_scores = <<>>
    /\ result = NoResult
    /\ word = <<>>
    /\ mistakes = 0
    /\ guesses = <<>>
    /\ index = 0
    /\ rows = <<>>
    /\ command = "play"

\* main, Command::Play: the argument parser refuses a word length of 0;
\* otherwise PlayerUI::new(HangmanPlayer::new(words, args.letters)?, args)
RejectLetters ==
    /\ pc = "start"
    /\ ~nonzero(letters)
    /\ pc' = "usage_error"
    /\ printed' = Printed("Value must be at least 1!", None)
    /\ UNCHANGED <<words, letters, engine, original_word_list, potential_letters,
                   letter_scores, trace, last_undone, prev_scores, result, batch>>

Start ==
    /\ pc = "start"
    /\ nonzero(letters)
    /\ LET player == HangmanPlayer_new(words, letters)
       IN  IF player.ok
           THEN /\ available_words' = player.available_words
                /\ current_guess' = player.current_guess
                /\ not_present' = player.not_present
                /\ used_letters' = player.used_letters
                /\ guess_history' = player.guess_history
                /\ original_word_list' = player.available_words
                /\ pc' = "score"
           ELSE /\ UNCHANGED <<engine, original_word_list>>
                /\ pc' = "config_error"
    /\ words' = <<>>
    /\ UNCHANGED <<letters, potential_letters, letter_scores, printed, trace,
                   last_undone, prev_scores, result, batch>>

\* play: print_stats and compute_letter_scores at the top of the loop
ComputeScores ==
    /\ pc = "score"
    /\ letter_scores' \in compute_letter_scores(available_words, used_letters)
    /\ printed' = Printed("possible words", None)
    /\ pc' = "show"
    /\ UNCHANGED <<words, letters, engine, original_word_list, potential_letters,
                   trace, last_undone, prev_scores, result, batch>>

\* play: show_scores_guesses_possibilities, the last use of letter_scores
ShowScores ==
    /\ pc = "show"
    /\ letter_scores' = <<>>
    /\ printed' = Printed("Top guesses", None)
    /\ pc' = "read"
    /\ UNCHANGED <<words, letters, engine, original_word_list, potential_letters,
                   trace, last_undone, prev_scores, result, batch>>

\* read_guess: a line that is refused, and another line is asked for
ReadAgain ==
    /\ pc = "read"
    /\ \E r \in {read_guess(line, used_letters, guess_history, current_guess, letters) :
                    line \in Lines(letters)} :
         /\ r.flow = "continue"
         /\ printed' = r.printed
    /\ UNCHANGED <<words, letters, pc, engine, original_word_list, potential_letters,
                   letter_scores, trace, last_undone, prev_scores, result, batch>>

\* read_guess panics in t.parse().unwrap(); the process ends
ReadPanic ==
    /\ pc = "read"
    /\ \E r \in {read_guess(line, used_letters, guess_history, current_guess, letters) :
                    line \in Lines(letters)} :
         /\ r.flow = "panic"
         /\ printed' = r.printed
    /\ pc' = "panicked"
    /\ UNCHANGED <<words, letters, engine, original_word_list, potential_letters,
                   letter_scores, trace, last_undone, prev_scores, result, batch>>

\* read_guess returns Break((letter, positions)); play calls mark_result
Guess ==
    /\ pc = "read"
    /\ \E r \in {read_guess(line, used_letters, guess_history, current_guess, letters) :
                    line \in Lines(letters)} :
         /\ r.flow = "break"
         /\ printed' = IF r.positions = {}
                       THEN Printed("is not in the word", r.letter)
                       ELSE Printed("is at position(s)", r.letter)
         /\ guess_history' = push_history(guess_history, current_guess, not_present)
         /\ used_letters' = mark_used(used_letters, r.letter)
         /\ not_present' = mark_not_present(not_present, r.letter, r.positions)
         /\ current_guess' = mark_guess(current_guess, r.letter, r.positions)
         /\ trace' = Append(trace, [letter          |-> r.letter,
                                    positions       |-> r.positions,
                                    guess           |-> current_guess,
                                    not_present     |-> not_present,
                                    available_words |-> available_words,
                                    propagated      |-> guess_history # <<>>
                                                        \/ last_undone # <<>>])
    /\ last_undone' = <<>>
    /\ pc' = "prune"
    /\ UNCHANGED <<words, letters, available_words, original_word_list,
                   potential_letters, letter_scores, prev_scores, result, batch>>

\* what the Continue(Undo) arm of play makes of the engine: current_guess and
\* not_present come from the last frame, available_words from the word list
\* the driver kept, used_letters is not assigned
undo_guess_first_frame(history) == history[1].guess

undo_guess(history) == history[Len(history)].guess

undo_not_present(history) == history[Len(history)].not_present

undo_words_kept(original, current) == current

undo_words(original, current) == original

undo_used_popped(used) == SubSeq(used, 1, Len(used) - 1)

undo_used(used) == used

\* read_guess returns Continue(Undo); play pops the last frame
Undo ==
    /\ pc = "read"
    /\ \E r \in {read_guess(line, used_letters, guess_history, current_guess, letters) :
                    line \in Lines(letters)} :
         r.flow = "undo"
    /\ current_guess' = undo_guess(guess_history)
    /\ not_present' = undo_not_present(guess_history)
    /\ available_words' = undo_words(original_word_list, available_words)
    /\ guess_history' = SubSeq(guess_history, 1, Len(guess_history) - 1)
    /\ used_letters' = undo_used(used_letters)
    /\ last_undone' = <<trace[Len(trace)]>>
    /\ trace' = SubSeq(trace, 1, Len(trace) - 1)
    /\ pc' = "prune"
    /\ UNCHANGED <<words, letters, original_word_list, potential_letters,
                   letter_scores, printed, prev_scores, result, batch>>

\* prune_and_fill_certain_letters, first half
PruneWords ==
    /\ pc = "prune"
    /\ LET r == prune_words(available_words, current_guess, not_present)
       IN  /\ available_words' = r.available_words
           /\ potential_letters' = r.potential_letters
    /\ pc' = "fill"
    /\ UNCHANGED <<words, letters, current_guess, not_present, used_letters,
                   guess_history, original_word_list, letter_scores, printed, trace,
                   last_undone, prev_scores, result, batch>>

\* prune_and_fill_certain_letters, second half
FillCertainLetters ==
    /\ pc = "fill"
    /\ current_guess' = fill_certain_letters(current_guess, potential_letters)
    /\ potential_letters' = <<>>
    /\ pc' = "check"
    /\ UNCHANGED <<words, letters, available_words, not_present, used_letters,
                   guess_history, original_word_list, letter_scores, printed, trace,
                   last_undone, prev_scores, result, batch>>

\* play: the match on available_words that ends the loop or goes round again
play_match_goes_on_when_empty(ws) ==
    IF Len(ws) = 1 THEN "solved" ELSE "score"

play_match(ws) ==
    IF Len(ws) = 1 THEN "solved"
    ELSE IF Len(ws) = 0 THEN "failed"
    ELSE "score"

Check ==
    /\ pc = "check"
    /\ pc' = play_match(available_words)
    /\ result' = IF pc' = "solved" THEN [kind |-> "ok", word |-> available_words[1]]
                 ELSE IF pc' = "failed" THEN [kind |-> "err", word |-> <<>>]
                 ELSE result
    /\ UNCHANGED <<words, letters, engine, original_word_list, potential_letters,
                   letter_scores, printed, trace, last_undone, prev_scores, batch>>

Next ==
    \/ RejectLetters
    \/ Start
    \/ ComputeScores
    \/ ShowScores
    \/ ReadAgain
    \/ ReadPanic
    \/ Guess
    \/ Undo
    \/ PruneWords
    \/ FillCertainLetters
    \/ Check

Spec == Init /\ [][Next]_vars

\* ------------------------------------------------ two calls of scoring
\* compute_letter_scores called twice on one engine, nothing in between: the
\* engine holds the words of one length of a dictionary and any used letters
InitScore ==
    /\ words \in Dictionaries
    /\ letters \in 1..MaxLen
    /\ pc = "call"
    /\ available_words = HangmanPlayer_new(words, letters).available_words
    /\ current_guess = HangmanPlayer_new(words, letters).current_guess
    /\ not_present = <<>>
    /\ used_letters \in UNION {Orders(S) : S \in SUBSET Letters}
    /\ guess_history = <<>>
    /\ original_word_list = available_words
    /\ potential_letters = <<>>
    /\ letter_scores = <<>>
    /\ printed = NothingPrinted
    /\ trace = <<>>
    /\ last_undone = <<>>
    /\ prev_scores = <<>>
    /\ result = NoResult
    /\ word = <<>>
    /\ mistakes = 0
    /\ guesses = <<>>
    /\ index = 0
    /\ rows = <<>>
    /\ command = "play"

FirstCall ==
    /\ pc = "call"
    /\ letter_scores' \in compute_letter_scores(available_words, used_letters)
    /\ pc' = "called"
    /\ UNCHANGED <<words, letters, engine, original_word_list, potential_letters,
                   printed, trace, last_undone, prev_scores, result, batch>>

SecondCall ==
    /\ pc = "called"
    /\ prev_scores' = letter_scores
    /\ letter_scores' \in compute_letter_scores(available_words, used_letters)
    /\ pc' = "called twice"
    /\ UNCHANGED <<words, letters, engine, original_word_list, potential_letters,
                   printed, trace, last_undone, result, batch>>

NextScore ==
    \/ FirstCall
    \/ SecondCall

ScoreSpec == InitScore /\ [][NextScore]_vars

\* ------------------------------------------------------------ simulate
\* the cells of word that hold letter, as Rust indices
sim_positions_first_only(w, letter) ==
    IF \E i \in 1..Len(w) : w[i] = letter
    THEN {(CHOOSE i \in 1..Len(w) : w[i] = letter /\ \A j \in 1..(i - 1) : w[j] # letter) - 1}
    ELSE {}

sim_positions(w, letter) == {i - 1 : i \in {j \in 1..Len(w) : w[j] = letter}}

\* the match on available_words at the end of the loop of simulate, arms in
\* the order of the source
sim_match(ws, w) ==
    IF Len(ws) = 1 /\ ws[1] = w THEN "ok"
    ELSE IF Len(ws) = 0 THEN "no words"
    ELSE IF Len(ws) = 1 THEN "wrong word"
    ELSE "loop"

InitSim ==
    /\ words \in FilesOfWords
    /\ command \in {"simulate", "bulk"}
    /\ word \in IF command = "simulate" THEN SimulateArgs(words) ELSE {<<>>}
    /\ pc = IF command = "simulate" THEN "sim_new" ELSE "bulk_next"
    /\ letters = 0
    /\ available_words = <<>>
    /\ current_guess = <<>>
    /\ not_present = <<>>
    /\ used_letters = <<>>
    /\ guess_history = <<>>
    /\ original_word_list = <<>>
    /\ potential_letters = <<>>
    /\ letter_scores = <<>>
    /\ printed = NothingPrinted
    /\ trace = <<>>
    /\ last_undone = <<>>
    /\ prev_scores = <<>>
    /\ result = NoResult
    /\ mistakes = 0
    /\ guesses = <<>>
    /\ index = 0
    /\ rows = <<>>

\* what simulate and main leave alone in every step
SimFrame == UNCHANGED <<words, letters, original_word_list, potential_letters, trace,
                        last_undone, prev_scores, result, command>>

\* main, Command::BulkSim: the for loop takes the next word, or is over
BulkNext ==
    /\ pc = "bulk_next"
    /\ IF index < Len(words)
       THEN /\ index' = index + 1
            /\ word' = words[index + 1]
            /\ pc' = "sim_new"
       ELSE /\ pc' = "bulk_done"
            /\ UNCHANGED <<index, word>>
    /\ UNCHANGED <<engine, letter_scores, printed, mistakes, guesses, rows>>
    /\ SimFrame

\* simulate: the engine for the words as long as word
SimNew ==
    /\ pc = "sim_new"
    /\ LET player == HangmanPlayer_new(words, Len(word))
       IN  /\ available_words' = player.available_words
           /\ current_guess' = player.current_guess
           /\ not_present' = player.not_present
           /\ used_letters' = player.used_letters
           /\ guess_history' = player.guess_history
    /\ mistakes' = 0
    /\ guesses' = <<>>
    /\ pc' = "sim_score"
    /\ UNCHANGED <<letter_scores, printed, word, index, rows>>
    /\ SimFrame

\* simulate: compute_letter_scores returns a list that has a first entry
SimScore ==
    /\ pc = "sim_score"
    /\ \E scores \in compute_letter_scores(available_words, used_letters) :
         /\ scores # <<>>
         /\ letter_scores' = scores
    /\ pc' = "sim_guess"
    /\ UNCHANGED <<engine, printed, batch>>
    /\ SimFrame

\* simulate: compute_letter_scores returns the empty list and scores[0]
\* panics; catch_unwind of the bulk simulation catches it, Simulate ends
SimPanic ==
    /\ pc = "sim_score"
    /\ <<>> \in compute_letter_scores(available_words, used_letters)
    /\ printed' = Printed("thread 'main' panicked", None)
    /\ pc' = IF command = "bulk" THEN "sim_panicked" ELSE "panicked"
    /\ UNCHANGED <<engine, letter_scores, batch>>
    /\ SimFrame

\* simulate: the top letter is guessed, its cells in word are the answer
SimGuess ==
    /\ pc = "sim_guess"
    /\ LET letter    == letter_scores[1][1]
           positions == sim_positions(word, letter)
       IN  /\ mistakes' = IF positions = {} THEN mistakes + 1 ELSE mistakes
           /\ guesses' = Append(guesses, letter)
           /\ guess_history' = push_history(guess_history, current_guess, not_present)
           /\ used_letters' = mark_used(used_letters, letter)
           /\ not_present' = mark_not_present(not_present, letter, positions)
           /\ current_guess' = mark_guess(current_guess, letter, positions)
    /\ letter_scores' = <<>>
    /\ pc' = "sim_propagate"
    /\ UNCHANGED <<available_words, printed, word, index, rows>>
    /\ SimFrame

\* simulate: player.prune_and_fill_certain_letters()
SimPropagate ==
    /\ pc = "sim_propagate"
    /\ LET r == prune_and_fill_certain_letters(available_words, current_guess,
                                               not_present)
       IN  /\ available_words' = r.available_words
           /\ current_guess' = r.current_guess
    /\ pc' = "sim_match"
    /\ UNCHANGED <<not_present, used_letters, guess_history, letter_scores, printed,
                   batch>>
    /\ SimFrame

\* simulate: the match; the first arm pushes one more frame and returns
SimMatch ==
    /\ pc = "sim_match"
    /\ LET arm == sim_match(available_words, word)
       IN  /\ pc' = IF arm = "ok" THEN "sim_done"
                    ELSE IF arm = "loop" THEN "sim_score"
                    ELSE "sim_error"
           /\ guess_history' = IF arm = "ok"
                               THEN push_history(guess_history, current_guess,
                                                 not_present)
                               ELSE guess_history
           /\ printed' = IF arm = "no words" THEN Printed("No words left", None)
                         ELSE IF arm = "wrong word"
                         THEN Printed("is not the correct word", None)
                         ELSE printed
    /\ UNCHANGED <<available_words, current_guess, not_present, used_letters,
                   letter_scores, batch>>
    /\ SimFrame

\* main, Command::Simulate: Took {results.history.len()} guesses, making
\* {results.mistakes} total mistakes
SimulateReport ==
    /\ pc = "sim_done"
    /\ command = "simulate"
    /\ rows' = Append(rows, <<word, Len(guess_history), mistakes>>)
    /\ printed' = Printed("Took guesses to guess the word", None)
    /\ pc' = "main_done"
    /\ UNCHANGED <<engine, letter_scores, word, mistakes, guesses, index>>
    /\ SimFrame

\* main, Command::BulkSim: SimRecord(word, history.len(), mistakes) is written
BulkWriteRow ==
    /\ pc = "sim_done"
    /\ command = "bulk"
    /\ rows' = Append(rows, <<word, Len(guess_history), mistakes>>)
    /\ pc' = "bulk_next"
    /\ UNCHANGED <<engine, letter_scores, printed, word, mistakes, guesses, index>>
    /\ SimFrame

\* main: the ? on the Err of simulate returns it from main
PropagateError ==
    /\ pc = "sim_error"
    /\ pc' = "main_error"
    /\ UNCHANGED <<engine, letter_scores, printed, batch>>
    /\ SimFrame

\* main, Command::BulkSim: catch_unwind gave Err, map_err prints, unwrap panics
BulkUnwrap ==
    /\ pc = "sim_panicked"
    /\ printed' = Printed("Failed on", None)
    /\ pc' = "panicked"
    /\ UNCHANGED <<engine, letter_scores, batch>>
    /\ SimFrame

NextSim ==
    \/ BulkNext
    \/ SimNew
    \/ SimScore
    \/ SimPanic
    \/ SimGuess
    \/ SimPropagate
    \/ SimMatch
    \/ SimulateReport
    \/ BulkWriteRow
    \/ PropagateError
    \/ BulkUnwrap

SimSpec == InitSim /\ [][NextSim]_vars

\* ------------------------------------------------------------- claims
Placed(guess) == SeqSet(guess) \ {None}

\* a word agrees with every placed cell and holds no excluded letter
Consistent(w, guess, np) ==
    \A i \in 1..Len(w) :
        /\ guess[i] # None => w[i] = guess[i]
        /\ ~Contains(np, w[i])

InSession == pc \in {"score", "show", "read", "prune", "fill", "check", "solved", "failed"}

\* the engine has been pruned since the last guess or undo
Pruned == pc \in {"fill", "check", "score", "show", "read", "solved", "failed"}

\* C1: whenever the candidates have been pruned since the last guess or undo
\* (and after fill_certain_letters as well), available_words is exactly the
\* words of the length-filtered dictionary that agree with every placed cell
\* of current_guess and hold no letter of not_present.
C1_CandidatesExact ==
    Pruned =>
        available_words =
            SelectSeq(original_word_list,
                      LAMBDA w : Consistent(w, current_guess, not_present))

\* a guess has been pruned: some words went, two or more are left
C1_Witness ==
    /\ pc = "check"
    /\ guess_history # <<>>
    /\ Len(available_words) >= 2
    /\ Len(available_words) < Len(original_word_list)

\* C2: in every state of a session used_letters holds every letter placed in
\* current_guess and every letter of not_present.
C2_UsedCoversPlacedAndExcluded ==
    InSession => (Placed(current_guess) \cup SeqSet(not_present)) \subseteq SeqSet(used_letters)

\* C3: in every state of a session no letter is both placed in current_guess
\* and in not_present.
C3_PlacedExcludedDisjoint ==
    InSession => Placed(current_guess) \cap SeqSet(not_present) = {}

\* C4: after an undo, current_guess and not_present are what they were just
\* before the undone guess was applied, and once prune_words has run
\* available_words is what it was just before that guess.
C4_UndoInverse ==
    last_undone # <<>> =>
        LET u == last_undone[1]
        IN  /\ not_present = u.not_present
            /\ pc = "prune" => current_guess = u.guess
            /\ Pruned => available_words = u.available_words

\* an undo has been pruned, of a guess made when words had already gone, with
\* an earlier guess still to undo
C4_Witness ==
    /\ last_undone # <<>>
    /\ pc = "fill"
    /\ guess_history # <<>>
    /\ Len(last_undone[1].available_words) < Len(original_word_list)

WordsWith(ws, l) == {k \in 1..Len(ws) : Contains(ws[k], l)}

\* C5: the result of compute_letter_scores has one entry for every letter that
\* is not used and none for a used letter, the score of a letter is the number
\* of candidate words that hold it, and the scores never go up along the result.
C5_ScoresExact ==
    pc = "show" =>
        /\ \A l \in Letters :
             Cardinality({i \in 1..Len(letter_scores) : letter_scores[i][1] = l})
                = IF Contains(used_letters, l) THEN 0 ELSE 1
        /\ \A i \in 1..Len(letter_scores) :
             /\ letter_scores[i][1] \in Letters
             /\ letter_scores[i][2] =
                    Cardinality(WordsWith(available_words, letter_scores[i][1]))
        /\ \A i, j \in 1..Len(letter_scores) :
             i < j => letter_scores[i][2] >= letter_scores[j][2]

\* scores of a pruned engine with a used letter, a candidate that holds a
\* scored letter twice, and two different scores
C5_Witness ==
    /\ pc = "show"
    /\ used_letters # <<>>
    /\ Len(available_words) < Len(original_word_list)
    /\ \E k \in 1..Len(available_words) :
         \E a, b \in 1..Len(available_words[k]) :
            /\ a # b
            /\ available_words[k][a] = available_words[k][b]
            /\ ~Contains(used_letters, available_words[k][a])
    /\ \E i, j \in 1..Len(letter_scores) : letter_scores[i][2] # letter_scores[j][2]

\* C6: letters with equal scores come in alphabetical order in the result of
\* compute_letter_scores.
C6_TiesAlphabetical ==
    pc = "show" =>
        \A i, j \in 1..Len(letter_scores) :
            (i < j /\ letter_scores[i][2] = letter_scores[j][2])
                => letter_scores[i][1] < letter_scores[j][1]

\* C7: two calls of compute_letter_scores on the same engine return the same
\* sequence.
C7_ScoringDeterministic ==
    pc = "called twice" => letter_scores = prev_scores

\* C8: no session is started with a word length of 0 or with a dictionary that
\* has no word of the length asked for.
C8_NoSessionOnEmptyDictionary ==
    InSession => (letters # 0 /\ original_word_list # <<>>)

GuessLines(l) == {line \in Lines(letters) : line.kind = "guess" /\ line.letter = l}

\* C9: after the guess of a letter is undone, the letter is still in
\* used_letters, every line that guesses it is refused as already guessed, the
\* scores have no entry for it, it is not in not_present, and the cells the
\* guess had placed it in are open again when the undo is done.
C9_UndoKeepsUsed ==
    last_undone # <<>> =>
        LET u == last_undone[1]
        IN  /\ Contains(used_letters, u.letter)
            /\ ~Contains(not_present, u.letter)
            /\ pc = "prune" => \A p \in u.positions : current_guess[p + 1] = None
            /\ pc = "show" =>
                 \A i \in 1..Len(letter_scores) : letter_scores[i][1] # u.letter
            /\ pc = "read" =>
                 \A line \in GuessLines(u.letter) :
                    read_guess(line, used_letters, guess_history, current_guess, letters)
                       = Outcome("continue", None, {},
                                 Printed("has already been guessed", u.letter))

\* the scores shown after the undo of a guess that had placed its letter
C9_Witness ==
    /\ last_undone # <<>>
    /\ pc = "show"
    /\ last_undone[1].positions # {}
    /\ letter_scores # <<>>

\* C10: with an empty history the line undo is answered with Nothing to undo!
\* and another line is read; the step that prints it changes nothing of the
\* engine and pops no frame, and no step out of a read with an empty history
\* is an undo.
C10_NothingToUndo ==
    [][/\ (pc = "read" /\ guess_history = <<>>) =>
            /\ read_guess(Line("undo", None, {}), used_letters, guess_history,
                          current_guess, letters)
                 = Outcome("continue", None, {}, Printed("Nothing to undo!", None))
            /\ pc' = "prune" => Len(guess_history') = 1
       /\ printed' = Printed("Nothing to undo!", None) =>
            /\ guess_history = <<>>
            /\ pc = "read" /\ pc' = "read"
            /\ UNCHANGED <<engine, original_word_list>>]_vars

\* Nothing to undo! has been printed after a guess and its undo, and the
\* driver reads on
C10_Witness ==
    /\ pc = "read"
    /\ printed = Printed("Nothing to undo!", None)
    /\ used_letters # <<>>

\* the step of play's Continue(Undo) arm
UndoStep == pc = "read" /\ pc' = "prune" /\ Len(guess_history') < Len(guess_history)

\* C11: along a session the number of available_words never grows from one
\* step to the next, except in the step that performs an undo, and that step
\* sets available_words to the word list the driver kept.
C11_CandidatesShrink ==
    [][InSession =>
          IF UndoStep
          THEN available_words' = original_word_list
          ELSE Len(available_words') <= Len(available_words)]_vars

\* an undo has just put back more words than there were before the guess it
\* takes back
C11_Witness ==
    /\ pc = "prune"
    /\ last_undone # <<>>
    /\ Len(last_undone[1].available_words) < Len(available_words)

\* the places of a session at which every value the engine takes is seen:
\* before a propagation, between its halves, after it, and at the top of the
\* loop (the steps from there to the next guess or undo leave the engine alone)
EngineSeen == pc \in {"prune", "fill", "check", "score"}

\* C12: from every state of the engine in a session,
\* prune_and_fill_certain_letters run a second time directly after a first run
\* leaves available_words and current_guess as the first run left them
\* (not_present and used_letters are not assigned by either run), an empty
\* available_words included.
C12_PropagationIdempotent ==
    EngineSeen =>
        LET first  == prune_and_fill_certain_letters(available_words, current_guess,
                                                     not_present)
            second == prune_and_fill_certain_letters(first.available_words,
                                                     first.current_guess, not_present)
        IN  second = first

\* a propagation is due that removes words and fills a cell
C12_Witness ==
    /\ pc = "prune"
    /\ LET first == prune_and_fill_certain_letters(available_words, current_guess,
                                                    not_present)
       IN  /\ first.available_words # available_words
           /\ first.available_words # <<>>
           /\ first.current_guess # current_guess

\* C13: fill_certain_letters is always followed by the match on
\* available_words: one word ends play with Ok(that word), no word ends it with
\* the error "No words left", two words or more go on to the next turn; and no
\* step is taken once play has ended either way.
C13_MatchAfterPropagation ==
    [][/\ pc = "fill" => pc' = "check"
       /\ pc = "check" =>
            IF Len(available_words) = 1
            THEN pc' = "solved" /\ result' = [kind |-> "ok", word |-> available_words[1]]
            ELSE IF Len(available_words) = 0
            THEN pc' = "failed" /\ result' = [kind |-> "err", word |-> <<>>]
            ELSE pc' = "score" /\ result' = NoResult
       /\ pc \notin {"solved", "failed"}]_vars

\* play has ended with the error after a second guess
C13_Witness ==
    /\ pc = "failed"
    /\ result.kind = "err"
    /\ Len(trace) >= 2

\* prune_and_fill_certain_letters has just run
Propagated == pc = "check"

LettersAt(ws, i) == {ws[k][i] : k \in 1..Len(ws)}

\* C19: after every propagation that leaves available_words non-empty, a cell
\* of current_guess holds a letter only if every available word has that letter
\* there, and is empty only if two available words differ there; and the
\* potential letters prune_words returns for an empty cell are exactly the
\* letters the retained words have there (none for a filled cell), so a
\* rejected word adds nothing.
C19_ForcedLetters ==
    /\ (Propagated /\ available_words # <<>>) =>
          \A i \in 1..Len(current_guess) :
              IF current_guess[i] # None
              THEN LettersAt(available_words, i) = {current_guess[i]}
              ELSE Cardinality(LettersAt(available_words, i)) >= 2
    /\ pc = "fill" =>
          \A i \in 1..Len(current_guess) :
              SeqSet(potential_letters[i]) =
                  IF current_guess[i] = None THEN LettersAt(available_words, i) ELSE {}

\* a propagation that rejected a word has filled a cell and left another empty
C19_Witness ==
    /\ pc = "check"
    /\ Len(available_words) >= 2
    /\ Len(available_words) < Len(original_word_list)
    /\ trace # <<>>
    /\ \E i \in 1..Len(current_guess) :
          current_guess[i] # None /\ trace[Len(trace)].guess[i] = None
                                 /\ (i - 1) \notin trace[Len(trace)].positions
    /\ \E i \in 1..Len(current_guess) : current_guess[i] = None

\* an undo has been followed by prune_and_fill_certain_letters
UndoPropagated ==
    last_undone # <<>> /\ pc \in {"check", "score", "show", "read", "solved", "failed"}

\* C20 as stated: after an undo and the propagation that follows it,
\* current_guess, not_present and available_words are what they were just
\* before the undone guess, the first guess of a session included.
C20_UndoRestoresExactly ==
    UndoPropagated =>
        LET u == last_undone[1]
        IN  /\ current_guess = u.guess
            /\ not_present = u.not_present
            /\ available_words = u.available_words

\* C20 amended: not_present and available_words are what they were just
\* before the undone guess in every case; current_guess is what it was then
\* when a propagation had run before that guess; when the guess was made on
\* the engine as constructed, current_guess keeps every cell filled then and
\* every other cell is empty or holds the letter all available words have there.
C20_UndoRestores ==
    UndoPropagated =>
        LET u == last_undone[1]
        IN  /\ not_present = u.not_present
            /\ available_words = u.available_words
            /\ u.propagated => current_guess = u.guess
            /\ ~u.propagated =>
                  \A i \in 1..Len(current_guess) :
                      \/ current_guess[i] = u.guess[i]
                      \/ /\ u.guess[i] = None
                         /\ available_words # <<>>
                         /\ LettersAt(available_words, i) = {current_guess[i]}

\* the second guess of a session, one that placed a letter and removed words,
\* has been undone and the propagation has run
C20_Witness ==
    /\ UndoPropagated
    /\ last_undone[1].propagated
    /\ guess_history # <<>>
    /\ Len(last_undone[1].available_words) < Len(original_word_list)

\* a line the claim calls invalid: not of the form letter and numbers, or a
\* number that is 0 or above letters, or a letter of used_letters, or a number
\* of a filled cell
InvalidLine(line) ==
    \/ line.kind = "malformed"
    \/ /\ line.kind = "guess"
       /\ \/ Contains(used_letters, line.letter)
          \/ \E p \in line.numbers : p = 0 \/ p > letters
          \/ \E p \in line.numbers : p \in 1..letters /\ current_guess[p] # None

\* C14: at the prompt every invalid line makes read_guess print a message and
\* ask for another line (so nothing is pushed and the engine is untouched),
\* and the session never ends in a panic.
C14_InvalidInputRecoverable ==
    /\ pc # "panicked"
    /\ pc = "read" =>
          \A line \in Lines(letters) :
              InvalidLine(line) =>
                  read_guess(line, used_letters, guess_history, current_guess,
                             letters).flow = "continue"

Distinct(ws) == \A i, j \in 1..Len(ws) : ws[i] = ws[j] => i = j

\* C15: a bulk simulation never ends in an error or a panic; it ends when the
\* loop is over, after the simulation of every word of the dictionary was run.
C15_BulkGoesOn ==
    command = "bulk" =>
        /\ pc \notin {"panicked", "main_error"}
        /\ pc = "bulk_done" => index = Len(words)

\* C16: the letter simulate passes to mark_result is not in used_letters and
\* every position passed with it is an empty cell of current_guess.
C16_SimGuessPrecondition ==
    pc = "sim_guess" =>
        LET letter == letter_scores[1][1]
        IN  /\ ~Contains(used_letters, letter)
            /\ \A p \in sim_positions(word, letter) : current_guess[p + 1] = None

\* C17: when the words of the dictionary are pairwise distinct and word is
\* one of them, simulate makes no more guesses than there are letters, never
\* finds the scores empty and never returns an error; when it returns,
\* available_words is the one word it was asked to find; and word is among
\* available_words after every propagation.
C17_SimFindsWord ==
    (Distinct(words) /\ Contains(words, word)) =>
        /\ Len(guesses) <= NumLetters
        /\ pc \notin {"sim_panicked", "panicked", "sim_error", "main_error"}
        /\ pc = "sim_score" => <<>> \notin compute_letter_scores(available_words,
                                                                used_letters)
        /\ pc = "sim_done" => available_words = <<word>>
        /\ pc \in {"sim_match", "sim_score", "sim_guess", "sim_done"} =>
             Contains(available_words, word)

\* simulate has returned after three guesses, one of them a mistake, in a
\* dictionary of three distinct words or more
C17_Witness ==
    /\ pc = "sim_done"
    /\ Distinct(words)
    /\ Len(words) >= 3
    /\ Len(guesses) >= 3
    /\ mistakes >= 1

\* C18: the length of the history simulate returns, which is the number
\* reported, is the number of letters it guessed.
C18_ReportedGuesses ==
    /\ pc = "sim_done" => Len(guess_history) = Len(guesses)
    /\ (pc \in {"main_done", "bulk_next"} /\ rows # <<>>) =>
          rows[Len(rows)][2] = Len(guesses)

====
